---- MODULE Spec2Model ----
(***************************************************************************)
(* The sharded LRU store of STORM_Backend/src/store.{h,cpp}.               *)
(*                                                                         *)
(* A Store owns total_shards Shards.  A Shard is an unordered_map `store`  *)
(* from key to Entry{value, recencyIt}, a std::list `recencyList` of keys  *)
(* (front = most recently used) and a capacity.  A std::list is modelled   *)
(* as a sequence of nodes [node, key]: `node` is the identity of the list  *)
(* node, which is what a std::list iterator designates and what splice     *)
(* keeps stable; `key` is the string the node holds.                       *)
(*                                                                         *)
(* Every public operation takes the lock of one shard for its whole body   *)
(* (std::lock_guard), so under Spec each call is one atomic action.        *)
(* SpecBatch studies one putMany call.  SpecConc and SpecConcFair          *)
(* interleave the steps of threads around the lock_guards.  SpecKV runs    *)
(* the KVStore of kv_store.{h,cpp} next to a Store of one shard.           *)
(***************************************************************************)
EXTENDS Integers, Sequences, FiniteSets

\* ---------------------------------------------------------------- bounds
\* keys 1..NumKeys; stores of 1..MaxShards shards of capacity 1..MaxCapacity;
\* putMany vectors of at most MaxBatch pairs
NumKeys == 3
MaxShards == 2
MaxCapacity == 2
MaxBatch == 2
\* under SpecConc: threads 1..NumThreads make MaxCalls calls in all
NumThreads == 2
MaxCalls == 3

Keys == 1..NumKeys
\* The store copies values and never inspects them: two distinct values are
\* what it takes to tell an overwrite from the value it replaces.
Values == {"v1", "v2"}
Pairs == Keys \X Values

\* "no value": the content of an output string that get() did not assign
NoValue == ""
\* "no key": the key field of a call that takes no key
NoKey == 0

VARIABLES
    shards,       \* Store::shards : shard index -> Shard
    lastOp,       \* the last call: its name, arguments and what it returned
    lastWritten,  \* for every live key, the value of the last put/putMany pair for it
    inserted,     \* for every shard, the distinct keys put into it since it was empty
    touches,      \* for every shard, its keys from the last touched to the first touched
    study,        \* under SpecBatch: the putMany call under study (see below)
    threads,      \* under SpecConc: for every thread, the call it is in and where
    shardLock,    \* Shard::shardLock of every shard: the thread that holds it
    reference,    \* under SpecConc: every shard as its critical sections, run one
                  \* after another in the order of their lock acquisitions, leave it
    calls,        \* under SpecConc: the number of calls made so far
    store_,       \* under SpecKV: KVStore::store_ : key -> value
    kvOp          \* under SpecKV: what the last call of the KVStore returned

\* the variables of the threads
conc == <<threads, shardLock, reference, calls>>

\* the variables of the KVStore
unsharded == <<store_, kvOp>>

vars ==
    <<shards, lastOp, lastWritten, inserted, touches, study,
      threads, shardLock, reference, calls, store_, kvOp>>

\* ------------------------------------------------------- sequence helpers
RECURSIVE SeqOfBatches(_)
SeqOfBatches(n) ==
    IF n = 0 THEN {<<>>}
    ELSE LET shorter == SeqOfBatches(n - 1)
         IN  shorter \cup {Append(b, p) : b \in {s \in shorter : Len(s) = n - 1}, p \in Pairs}

\* the vectors of pairs a caller may hand to putMany
Batches == SeqOfBatches(MaxBatch)

\* ------------------------------------------------------------- std::list
Nodes(list) == {list[i].node : i \in 1..Len(list)}

\* The node a fresh allocation returns.  Nodes are only compared for identity,
\* so which unused node the allocator hands out is immaterial; the model hands
\* out the first unused one of <<key, 1>>, <<key, 2>>, ..., which gives equal
\* lists equal nodes.
NewNode(list, key) ==
    LET n == CHOOSE n \in 1..(Len(list) + 1) :
                /\ <<key, n>> \notin Nodes(list)
                /\ \A m \in 1..(n - 1) : <<key, m>> \in Nodes(list)
    IN  <<key, n>>

\* list.end(): the past-the-end iterator, which designates no node
end == <<NoKey, 0>>

\* list.begin(): the iterator of the front node; end() when the list is empty
begin(list) == IF list = <<>> THEN end ELSE list[1].node

\* list.back(): the key held by the last node
back(list) == list[Len(list)].key

\* mutant: the new node is linked at the back
push_front_atBack(list, key) == list \o <<[node |-> NewNode(list, key), key |-> key]>>

\* list.push_front(key)
push_front(list, key) == <<[node |-> NewNode(list, key), key |-> key]>> \o list

\* list.pop_back()
pop_back(list) == SubSeq(list, 1, Len(list) - 1)

\* list.erase(it): unlink the node `it` designates
erase(list, it) == SelectSeq(list, LAMBDA n : n.node # it)

\* list.splice(list.begin(), list, it): relink the node `it` designates at the
\* front; the node, and so every iterator to it, stays the same
splice(list, it) ==
    SelectSeq(list, LAMBDA n : n.node = it) \o SelectSeq(list, LAMBDA n : n.node # it)

\* ---------------------------------------------------- std::unordered_map
\* store.find(key) != store.end()
found(store, key) == key \in DOMAIN store

\* store.erase(key)
map_erase(store, key) == [k \in (DOMAIN store) \ {key} |-> store[k]]

\* store.emplace(key, entry): inserts only when the key is absent
emplace(store, key, entry) ==
    IF key \in DOMAIN store THEN store
    ELSE [k \in (DOMAIN store) \cup {key} |-> IF k = key THEN entry ELSE store[k]]

\* an unordered_map without elements
EmptyMap == << >>

\* ------------------------------------------------------------ the Store
\* struct Entry
Entry(value, recencyIt) == [value |-> value, recencyIt |-> recencyIt]

\* struct Shard, as the constructor leaves it
Shard(shard_capacity) ==
    [store |-> EmptyMap, recencyList |-> <<>>, capacity |-> shard_capacity]

\* Store::Store(shard_capacity, total_shards); shards are indexed from 0
Store(shard_capacity, total_shards) ==
    [shard_index \in 0..(total_shards - 1) |-> Shard(shard_capacity)]

\* std::hash<std::string>: a key of the model stands for a string and is
\* identified with the hash code of that string
Hash(key) == key

\* mutant: the index depends on how many keys the store holds
shardIndex_byLoad(ss, key) ==
    (Hash(key) + Cardinality(UNION {DOMAIN ss[i].store : i \in DOMAIN ss}))
        % Cardinality(DOMAIN ss)

\* Store::shardIndex
shardIndex(ss, key) == Hash(key) % Cardinality(DOMAIN ss)

\* putInShard and getFromShard, the splice and the assignment after it: the node
\* of `key` is relinked at the front and the entry's iterator set to begin()
moveToFront(shard, key) ==
    LET moved == splice(shard.recencyList, shard.store[key].recencyIt)
    IN  [shard EXCEPT
           !.store = [@ EXCEPT ![key].recencyIt = begin(moved)],
           !.recencyList = moved]

\* mutant: an overwrite updates the value and leaves the recency list as it is
overwrite_noRefresh(shard, key, value) ==
    [shard EXCEPT !.store = [@ EXCEPT ![key].value = value]]

\* putInShard, key exists: update the value and move the key to the front
overwrite(shard, key, value) ==
    moveToFront([shard EXCEPT !.store = [@ EXCEPT ![key].value = value]], key)

\* mutant: the capacity test with > for >=
atCapacity_strict(shard) == Cardinality(DOMAIN shard.store) > shard.capacity

\* putInShard, the capacity test: shard.store.size() >= shard.capacity
atCapacity(shard) == Cardinality(DOMAIN shard.store) >= shard.capacity

\* mutant: the eviction takes the key at the front of the list
evict_front(shard) ==
    [shard EXCEPT
        !.store = map_erase(@, shard.recencyList[1].key),
        !.recencyList = Tail(@)]

\* putInShard, the eviction: erase the key at the back of the list from the
\* store, then pop the back of the list
evict(shard) ==
    [shard EXCEPT
        !.store = map_erase(@, back(shard.recencyList)),
        !.recencyList = pop_back(@)]

\* mutant: the entry is emplaced before the key is pushed, so that its iterator
\* is the begin() of the list without the new node
insert_emplaceFirst(shard, key, value) ==
    [shard EXCEPT
        !.store = emplace(@, key, Entry(value, begin(shard.recencyList))),
        !.recencyList = push_front(@, key)]

\* putInShard, the insertion: push the key at the front of the list and emplace
\* its entry, whose iterator is begin()
insert(shard, key, value) ==
    LET pushed == push_front(shard.recencyList, key)
    IN  [shard EXCEPT
           !.store = emplace(@, key, Entry(value, begin(pushed))),
           !.recencyList = pushed]

\* mutant: the capacity test comes before the lookup of the key
putInShard_evictsFirst(shard, key, value) ==
    LET room == IF atCapacity(shard) THEN evict(shard) ELSE shard
    IN  IF found(room.store, key)
        THEN overwrite(room, key, value)
        ELSE insert(room, key, value)

\* mutant: the value of an existing key is left as it is (emplace on a present key)
putInShard_keepsValue(shard, key, value) ==
    IF found(shard.store, key)
    THEN moveToFront(shard, key)
    ELSE insert(IF atCapacity(shard) THEN evict(shard) ELSE shard, key, value)

\* Store::putInShard
putInShard(shard, key, value) ==
    IF found(shard.store, key)
    THEN overwrite(shard, key, value)
    ELSE insert(IF atCapacity(shard) THEN evict(shard) ELSE shard, key, value)

\* mutant: get returns the value and leaves the recency list as it is
getFromShard_noRefresh(shard, key, value) ==
    IF ~found(shard.store, key)
    THEN [shard |-> shard, ret |-> FALSE, value |-> value]
    ELSE [shard |-> shard, ret |-> TRUE, value |-> shard.store[key].value]

\* mutant: a get that misses empties the caller's output string
getFromShard_clearsOutput(shard, key, value) ==
    IF ~found(shard.store, key)
    THEN [shard |-> shard, ret |-> FALSE, value |-> NoValue]
    ELSE [shard |-> moveToFront(shard, key),
          ret |-> TRUE,
          value |-> shard.store[key].value]

\* Store::getFromShard; `value` is the content of the caller's output string
getFromShard(shard, key, value) ==
    IF ~found(shard.store, key)
    THEN [shard |-> shard, ret |-> FALSE, value |-> value]
    ELSE [shard |-> moveToFront(shard, key),
          ret |-> TRUE,
          value |-> shard.store[key].value]

\* mutant: del unlinks the node and leaves the entry in the store
delFromShard_keepsEntry(shard, key) ==
    IF ~found(shard.store, key)
    THEN [shard |-> shard, ret |-> FALSE]
    ELSE [shard |-> [shard EXCEPT !.recencyList = erase(@, shard.store[key].recencyIt)],
          ret |-> TRUE]

\* mutant: del erases the entry and leaves its node in the recency list
delFromShard_keepsNode(shard, key) ==
    IF ~found(shard.store, key)
    THEN [shard |-> shard, ret |-> FALSE]
    ELSE [shard |-> [shard EXCEPT !.store = map_erase(@, key)], ret |-> TRUE]

\* Store::delFromShard
delFromShard(shard, key) ==
    IF ~found(shard.store, key)
    THEN [shard |-> shard, ret |-> FALSE]
    ELSE [shard |-> [shard EXCEPT
                       !.recencyList = erase(@, shard.store[key].recencyIt),
                       !.store = map_erase(@, key)],
          ret |-> TRUE]

\* mutant: the capacity is that of the whole store, and the eviction takes the
\* least recently used key of the first shard that holds a key
StorePut_sharedCapacity(ss, key, value) ==
    LET i == shardIndex(ss, key)
        holding == {j \in DOMAIN ss : ss[j].store # EmptyMap}
        total == Cardinality(UNION {DOMAIN ss[j].store : j \in DOMAIN ss})
    IN  IF found(ss[i].store, key) \/ total < ss[i].capacity
        THEN [ss EXCEPT ![i] = putInShard(ss[i], key, value)]
        ELSE LET j == CHOOSE j \in holding : \A h \in holding : j <= h
                 room == [ss EXCEPT ![j] = evict(ss[j])]
             IN  [room EXCEPT ![i] = insert(room[i], key, value)]

\* Store::put, as a function of the shards
StorePut(ss, key, value) ==
    LET i == shardIndex(ss, key)
    IN  [ss EXCEPT ![i] = putInShard(ss[i], key, value)]

\* mutant: the first loop runs over the input from its last pair to its first
shard_batches_backwards(ss, key_value_pairs) ==
    [i \in DOMAIN ss |->
        SelectSeq([n \in 1..Len(key_value_pairs) |->
                      key_value_pairs[Len(key_value_pairs) + 1 - n]],
                  LAMBDA p : Hash(p[1]) % Cardinality(DOMAIN ss) = i)]

\* Store::putMany, first loop: shard_batches[i] holds the pairs routed to shard i,
\* in input order
shard_batches(ss, key_value_pairs) ==
    [i \in DOMAIN ss |->
        SelectSeq(key_value_pairs, LAMBDA p : shardIndex(ss, p[1]) = i)]

\* mutant: the inner loop runs over the batch from its last pair to its first
RECURSIVE ApplyBatch_reversed(_, _)
ApplyBatch_reversed(shard, batch) ==
    IF batch = <<>> THEN shard
    ELSE LET last == batch[Len(batch)]
         IN  ApplyBatch_reversed(putInShard(shard, last[1], last[2]),
                                 SubSeq(batch, 1, Len(batch) - 1))

\* mutant: a pair whose key is new is dropped when the shard is full
RECURSIVE ApplyBatch_dropsWhenFull(_, _)
ApplyBatch_dropsWhenFull(shard, batch) ==
    IF batch = <<>> THEN shard
    ELSE IF ~found(shard.store, Head(batch)[1]) /\ atCapacity(shard)
    THEN ApplyBatch_dropsWhenFull(shard, Tail(batch))
    ELSE ApplyBatch_dropsWhenFull(putInShard(shard, Head(batch)[1], Head(batch)[2]),
                                  Tail(batch))

\* Store::putMany, inner loop: the pairs of one batch applied to one shard in order
RECURSIVE ApplyBatch(_, _)
ApplyBatch(shard, batch) ==
    IF batch = <<>> THEN shard
    ELSE ApplyBatch(putInShard(shard, Head(batch)[1], Head(batch)[2]), Tail(batch))

\* Store::putMany, as a function of the shards: shards with an empty batch are skipped
StorePutMany(ss, key_value_pairs) ==
    LET batches == shard_batches(ss, key_value_pairs)
    IN  [i \in DOMAIN ss |->
            IF batches[i] = <<>> THEN ss[i] ELSE ApplyBatch(ss[i], batches[i])]

\* mutant: clear empties the store of each shard and leaves its recency list
StoreClear_keepsList(ss) ==
    [i \in DOMAIN ss |-> [ss[i] EXCEPT !.store = EmptyMap]]

\* Store::clear, as a function of the shards
StoreClear(ss) ==
    [i \in DOMAIN ss |-> [ss[i] EXCEPT !.store = EmptyMap, !.recencyList = <<>>]]

\* mutant: the loop of list runs from the back of the recency list to its front
ListShard_backToFront(shard) ==
    [n \in 1..Len(shard.recencyList) |->
        LET key == shard.recencyList[Len(shard.recencyList) + 1 - n].key
        IN  <<key, shard.store[key].value>>]

\* Store::list: what is printed for one shard, front to back: <<key, value>> lines
ListShard(shard) ==
    [n \in 1..Len(shard.recencyList) |->
        <<shard.recencyList[n].key, shard.store[shard.recencyList[n].key].value>>]

\* ------------------------------------------------------ history variables
\* the keys a get would find
LiveKeys(ss) == UNION {DOMAIN ss[i].store : i \in DOMAIN ss}

\* the keys of a recency list, front to back
RecencyKeys(shard) == [n \in 1..Len(shard.recencyList) |-> shard.recencyList[n].key]

\* the elements of a sequence
Range(seq) == {seq[n] : n \in 1..Len(seq)}

\* the value of the last pair of `written` (a sequence of pairs) whose key is k
RECURSIVE LastValue(_, _, _)
LastValue(written, k, dflt) ==
    IF written = <<>> THEN dflt
    ELSE LastValue(Tail(written), k,
                   IF Head(written)[1] = k THEN Head(written)[2] ELSE dflt)

\* lastWritten after a call that wrote `written` and left the shards as `ss`
Written(ss, written) ==
    [k \in Keys |-> IF k \in LiveKeys(ss)
                    THEN LastValue(written, k, lastWritten[k])
                    ELSE NoValue]

\* The record of a call that took the shards from `ss` to `tt`: its name, its
\* arguments (key, and value for put), what it returned (ret; out: the output
\* string of get, the lines of list), whether the key was in the index of its
\* shard when the call began, and the keys the call removed from the store.
Call(name, key, value, ret, out, ss, tt) ==
    [name |-> name, key |-> key, value |-> value, ret |-> ret, out |-> out,
     present |-> key \in Keys /\ key \in DOMAIN ss[shardIndex(ss, key)].store,
     removed |-> LiveKeys(ss) \ LiveKeys(tt)]

\* no key has been inserted into the shard since it was empty
NoneInserted == [tracked |-> TRUE, keys |-> <<>>]
\* the shard has seen something else than inserts of distinct keys
Untracked == [tracked |-> FALSE, keys |-> <<>>]

\* `inserted` after a call `name` that took the shards from `ss` to `tt`;
\* `touched` are the shards the call locked
Inserted(name, key, touched, ss, tt) ==
    [i \in DOMAIN ss |->
        IF tt[i].store = EmptyMap THEN NoneInserted
        ELSE IF i \notin touched THEN inserted[i]
        ELSE IF /\ name = "put"
                /\ inserted[i].tracked
                /\ key \notin Range(inserted[i].keys)
                /\ Len(inserted[i].keys) <= ss[i].capacity
        THEN [tracked |-> TRUE, keys |-> Append(inserted[i].keys, key)]
        ELSE Untracked]

\* the keys of shard i among `keys`, in the order of `keys`
RoutedTo(ss, i, keys) == SelectSeq(keys, LAMBDA k : shardIndex(ss, k) = i)

\* `order` (keys, the last touched first) after the keys of `keys` were touched
\* one after another
RECURSIVE Touch(_, _)
Touch(order, keys) ==
    IF keys = <<>> THEN order
    ELSE Touch(<<Head(keys)>> \o SelectSeq(order, LAMBDA k : k # Head(keys)), Tail(keys))

\* `touches` after a call that touched `keys` (inserted, overwrote or found
\* them, in this order) and left the shards as `tt`: the keys that are no
\* longer in a shard are forgotten
Touches(tt, keys) ==
    [i \in DOMAIN tt |->
        SelectSeq(Touch(touches[i], RoutedTo(tt, i, keys)),
                  LAMBDA k : k \in DOMAIN tt[i].store)]

\* no putMany call is under study
NoStudy == << >>

\* ---------------------------------------------------------------- threads
\* the threads that call the store
Threads == 1..NumThreads

\* the holder of a std::mutex that no thread holds
NoThread == 0

\* A thread between two calls.  In a call, `op` is the member function, `key`,
\* `value` and `pairs` its arguments, `shard_index` the shard it is at, `n` the
\* number of pairs of that shard's batch it has applied, `ret` and `out` what
\* the body returned and assigned, `printed` the lines list has printed for the
\* shard, and `pc` its position: "lock" before the
\* lock_guard is constructed, "locked" inside the critical section, "clearList"
\* between the two statements of clear's critical section, "unlock" at the end
\* of the scope of the lock_guard.  `locked` lists the shards the call has
\* locked so far, `expect` is what the call returns in the sequential order of
\* the lock acquisitions.  `erased` are, in clear, the keys of the shards the
\* call has emptied so far, and in get, the keys that the clear calls in
\* progress had erased when get looked up its key.
Idle ==
    [pc |-> "idle", op |-> "none", key |-> NoKey, value |-> NoValue,
     pairs |-> <<>>, shard_index |-> 0, n |-> 0, ret |-> FALSE, out |-> NoValue,
     printed |-> <<>>, locked |-> <<>>, expect |-> [ret |-> FALSE, value |-> NoValue],
     erased |-> {}]

\* the values a thread writes: every thread writes a value of its own
ThreadValue(t) == IF t % 2 = 1 THEN "v1" ELSE "v2"

\* the vectors of pairs thread t hands to putMany
ThreadBatches(t) == {b \in Batches : \A n \in 1..Len(b) : b[n][2] = ThreadValue(t)}

\* the variables of the calls made one at a time
sequential == <<lastOp, lastWritten, inserted, touches, study>>

\* ---------------------------------------------------------------- actions
Init ==
    /\ \E shard_capacity \in 1..MaxCapacity, total_shards \in 1..MaxShards :
          shards = Store(shard_capacity, total_shards)
    /\ lastOp = Call("construct", NoKey, NoValue, TRUE, NoValue, shards, shards)
    /\ lastWritten = [k \in Keys |-> NoValue]
    /\ inserted = [i \in DOMAIN shards |-> NoneInserted]
    /\ touches = [i \in DOMAIN shards |-> <<>>]
    /\ study = NoStudy
    /\ threads = [t \in Threads |-> Idle]
    /\ shardLock = [i \in DOMAIN shards |-> NoThread]
    /\ reference = shards
    /\ calls = 0
    /\ store_ = EmptyMap
    /\ kvOp = [ret |-> TRUE, out |-> NoValue]

\* bool Store::put(key, value)
put(key, value) ==
    /\ shards' = StorePut(shards, key, value)
    /\ lastOp' = Call("put", key, value, TRUE, NoValue, shards, shards')
    /\ lastWritten' = Written(shards', <<<<key, value>>>>)
    /\ touches' = Touches(shards', <<key>>)
    /\ UNCHANGED <<inserted, study>>
    /\ UNCHANGED conc
    /\ UNCHANGED unsharded

\* bool Store::get(key, value&)
get(key, value) ==
    LET i == shardIndex(shards, key)
        r == getFromShard(shards[i], key, value)
    IN  /\ shards' = [shards EXCEPT ![i] = r.shard]
        /\ lastOp' = Call("get", key, NoValue, r.ret, r.value, shards, shards')
        /\ lastWritten' = Written(shards', <<>>)
        /\ touches' = Touches(shards', IF r.ret THEN <<key>> ELSE <<>>)
        /\ UNCHANGED <<inserted, study>>
        /\ UNCHANGED conc
        /\ UNCHANGED unsharded

\* bool Store::del(key)
del(key) ==
    LET i == shardIndex(shards, key)
        r == delFromShard(shards[i], key)
    IN  /\ shards' = [shards EXCEPT ![i] = r.shard]
        /\ lastOp' = Call("del", key, NoValue, r.ret, NoValue, shards, shards')
        /\ lastWritten' = Written(shards', <<>>)
        /\ touches' = Touches(shards', <<>>)
        /\ UNCHANGED <<inserted, study>>
        /\ UNCHANGED conc
        /\ UNCHANGED unsharded

\* void Store::putMany(key_value_pairs)
putMany(key_value_pairs) ==
    /\ shards' = StorePutMany(shards, key_value_pairs)
    /\ lastOp' = Call("putMany", NoKey, NoValue, TRUE, NoValue, shards, shards')
    /\ lastWritten' = Written(shards', key_value_pairs)
    /\ touches' = Touches(shards', [n \in 1..Len(key_value_pairs) |-> key_value_pairs[n][1]])
    /\ UNCHANGED <<inserted, study>>
    /\ UNCHANGED conc
    /\ UNCHANGED unsharded

\* void Store::clear()
clear ==
    /\ shards' = StoreClear(shards)
    /\ lastOp' = Call("clear", NoKey, NoValue, TRUE, NoValue, shards, shards')
    /\ lastWritten' = Written(shards', <<>>)
    /\ touches' = Touches(shards', <<>>)
    /\ UNCHANGED <<inserted, study>>
    /\ UNCHANGED conc
    /\ UNCHANGED unsharded

\* void Store::list(): prints every shard front to back, changes nothing
list ==
    /\ lastOp' = Call("list", NoKey, NoValue, TRUE,
                      [i \in DOMAIN shards |-> ListShard(shards[i])], shards, shards)
    /\ UNCHANGED <<shards, lastWritten, inserted, touches, study>>
    /\ UNCHANGED conc
    /\ UNCHANGED unsharded

Next ==
    \/ \E key \in Keys, value \in Values : put(key, value)
    \/ \E key \in Keys, value \in Values \cup {NoValue} : get(key, value)
    \/ \E key \in Keys : del(key)
    \/ \E key_value_pairs \in Batches : putMany(key_value_pairs)
    \/ clear
    \/ list

Spec == Init /\ [][Next]_vars

\* ---------------------------------------------------------------------------
\* SpecBatch: the operations as functions of the store, without the record of
\* the call.  Calls of put, get, del and clear bring the store to a state it
\* can be in, and `inserted` follows the keys put into each shard; then one
\* putMany call is made and kept, with the store it began in, in `study`.
\* ---------------------------------------------------------------------------
Studied == study # NoStudy

BatchPut(key, value) ==
    /\ ~Studied
    /\ shards' = StorePut(shards, key, value)
    /\ inserted' = Inserted("put", key, {shardIndex(shards, key)}, shards, shards')
    /\ UNCHANGED <<lastOp, lastWritten, touches, study>>
    /\ UNCHANGED conc
    /\ UNCHANGED unsharded

BatchGet(key) ==
    /\ ~Studied
    /\ LET i == shardIndex(shards, key)
       IN  /\ shards' = [shards EXCEPT ![i] = getFromShard(shards[i], key, NoValue).shard]
           /\ inserted' = Inserted("get", key, {i}, shards, shards')
    /\ UNCHANGED <<lastOp, lastWritten, touches, study>>
    /\ UNCHANGED conc
    /\ UNCHANGED unsharded

BatchDel(key) ==
    /\ ~Studied
    /\ LET i == shardIndex(shards, key)
       IN  /\ shards' = [shards EXCEPT ![i] = delFromShard(shards[i], key).shard]
           /\ inserted' = Inserted("del", key, {i}, shards, shards')
    /\ UNCHANGED <<lastOp, lastWritten, touches, study>>
    /\ UNCHANGED conc
    /\ UNCHANGED unsharded

BatchClear ==
    /\ ~Studied
    /\ shards' = StoreClear(shards)
    /\ inserted' = Inserted("clear", NoKey, DOMAIN shards, shards, shards')
    /\ UNCHANGED <<lastOp, lastWritten, touches, study>>
    /\ UNCHANGED conc
    /\ UNCHANGED unsharded

BatchPutMany(key_value_pairs) ==
    /\ ~Studied
    /\ shards' = StorePutMany(shards, key_value_pairs)
    /\ inserted' = Inserted("putMany", NoKey,
                            {shardIndex(shards, key_value_pairs[n][1]) :
                                n \in 1..Len(key_value_pairs)},
                            shards, shards')
    /\ study' = [before |-> shards, pairs |-> key_value_pairs]
    /\ UNCHANGED <<lastOp, lastWritten, touches>>
    /\ UNCHANGED conc
    /\ UNCHANGED unsharded

NextBatch ==
    \/ \E key \in Keys, value \in Values : BatchPut(key, value)
    \/ \E key \in Keys : BatchGet(key)
    \/ \E key \in Keys : BatchDel(key)
    \/ BatchClear
    \/ \E key_value_pairs \in Batches : BatchPutMany(key_value_pairs)

SpecBatch == Init /\ [][NextBatch]_vars

\* ---------------------------------------------------------------------------
\* SpecConc: threads call the store concurrently.  A step of a thread is the
\* call itself (the code up to the lock_guard), the construction of a
\* lock_guard, the statements of a critical section, or the destruction of the
\* lock_guard with the code up to the next lock_guard or the return.
\* ---------------------------------------------------------------------------
\* the shards that receive at least one pair of a putMany vector
Touched(key_value_pairs) ==
    {i \in DOMAIN shards : shard_batches(shards, key_value_pairs)[i] # <<>>}

\* the least element of a non-empty set of shard indices
Least(indices) == CHOOSE i \in indices : \A j \in indices : i <= j

\* a call of thread t begins: `started` is the thread at its first lock_guard
Begin(t, started) ==
    /\ threads[t].pc = "idle"
    /\ calls < MaxCalls
    /\ calls' = calls + 1
    /\ threads' = [threads EXCEPT ![t] = started]
    /\ UNCHANGED <<shards, shardLock, reference>>
    /\ UNCHANGED sequential
    /\ UNCHANGED unsharded

\* Store::put up to the lock_guard: the target shard is shards[shardIndex(key)]
CallPut(t, key, value) ==
    Begin(t, [Idle EXCEPT !.pc = "lock", !.op = "put", !.key = key, !.value = value,
                          !.shard_index = shardIndex(shards, key)])

\* Store::get up to the lock_guard
CallGet(t, key) ==
    Begin(t, [Idle EXCEPT !.pc = "lock", !.op = "get", !.key = key,
                          !.shard_index = shardIndex(shards, key)])

\* Store::del up to the lock_guard
CallDel(t, key) ==
    Begin(t, [Idle EXCEPT !.pc = "lock", !.op = "del", !.key = key,
                          !.shard_index = shardIndex(shards, key)])

\* Store::putMany up to the first lock_guard: the pairs are grouped by shard and
\* the shards with an empty batch are skipped; when every batch is empty the
\* call returns without a lock
CallPutMany(t, key_value_pairs) ==
    Begin(t, IF Touched(key_value_pairs) = {} THEN Idle
             ELSE [Idle EXCEPT !.pc = "lock", !.op = "putMany",
                               !.pairs = key_value_pairs,
                               !.shard_index = Least(Touched(key_value_pairs))])

\* Store::clear up to the lock_guard of the first shard
CallClear(t) ==
    Begin(t, [Idle EXCEPT !.pc = "lock", !.op = "clear", !.shard_index = 0])

\* Store::list up to the lock_guard of the first shard
CallList(t) ==
    Begin(t, [Idle EXCEPT !.pc = "lock", !.op = "list", !.shard_index = 0])

\* mutant: a lock that never waits
mutexFree_always(i) == TRUE

\* mutant: the lock_guard of put does not keep other threads out
mutexFree_duringPut(i) ==
    IF shardLock[i] = NoThread THEN TRUE ELSE threads[shardLock[i]].op = "put"

\* mutant: the lock_guard of clear does not keep other threads out
mutexFree_duringClear(i) ==
    IF shardLock[i] = NoThread THEN TRUE ELSE threads[shardLock[i]].op = "clear"

\* std::mutex::lock returns once no thread holds the mutex
mutexFree(i) == shardLock[i] = NoThread

\* what the critical section thread t is about to enter makes of `shard` when
\* nothing else runs in it, and what it returns
Sequentially(t, shard) ==
    LET call == threads[t]
    IN  CASE call.op = "put" ->
               [shard |-> putInShard(shard, call.key, call.value),
                ret |-> TRUE, value |-> NoValue]
          [] call.op = "get" -> getFromShard(shard, call.key, NoValue)
          [] call.op = "del" ->
               [shard |-> delFromShard(shard, call.key).shard,
                ret |-> delFromShard(shard, call.key).ret, value |-> NoValue]
          [] call.op = "putMany" ->
               [shard |-> ApplyBatch(shard,
                              shard_batches(shards, call.pairs)[call.shard_index]),
                ret |-> TRUE, value |-> NoValue]
          [] call.op = "clear" ->
               [shard |-> [shard EXCEPT !.store = EmptyMap, !.recencyList = <<>>],
                ret |-> TRUE, value |-> NoValue]
          [] call.op = "list" -> [shard |-> shard, ret |-> TRUE, value |-> NoValue]

\* std::lock_guard<std::mutex> shard_lock_guard(target_shard.shardLock)
Lock(t) ==
    LET i == threads[t].shard_index
        r == Sequentially(t, reference[i])
    IN  /\ threads[t].pc = "lock"
        /\ mutexFree(i)
        /\ shardLock' = [shardLock EXCEPT ![i] = t]
        /\ reference' = [reference EXCEPT ![i] = r.shard]
        /\ threads' = [threads EXCEPT
                          ![t].pc = "locked",
                          ![t].locked = Append(@, i),
                          ![t].expect = [ret |-> r.ret, value |-> r.value]]
        /\ UNCHANGED <<shards, calls>>
        /\ UNCHANGED sequential
        /\ UNCHANGED unsharded

\* a statement of the critical section of thread t, which makes `shard` of its
\* shard and takes the thread to `after`
Body(t, op, pc, shard, after) ==
    /\ threads[t].pc = pc
    /\ threads[t].op = op
    /\ shards' = [shards EXCEPT ![threads[t].shard_index] = shard]
    /\ threads' = [threads EXCEPT ![t] = after]
    /\ UNCHANGED <<shardLock, reference, calls>>
    /\ UNCHANGED sequential
    /\ UNCHANGED unsharded

\* Store::put, the critical section: return putInShard(target_shard, key, value)
PutBody(t) ==
    LET call == threads[t]
    IN  Body(t, "put", "locked",
             putInShard(shards[call.shard_index], call.key, call.value),
             [call EXCEPT !.pc = "unlock", !.ret = TRUE])

\* Store::get, the critical section: return getFromShard(target_shard, key, value)
GetBody(t) ==
    LET call == threads[t]
        r == getFromShard(shards[call.shard_index], call.key, NoValue)
    IN  Body(t, "get", "locked", r.shard,
             [call EXCEPT !.pc = "unlock", !.ret = r.ret, !.out = r.value,
                          !.erased = UNION {threads[u].erased : u \in Threads \ {t}}])

\* Store::del, the critical section: return delFromShard(target_shard, key)
DelBody(t) ==
    LET call == threads[t]
        r == delFromShard(shards[call.shard_index], call.key)
    IN  Body(t, "del", "locked", r.shard, [call EXCEPT !.pc = "unlock", !.ret = r.ret])

\* Store::putMany, one turn of the inner loop: putInShard of the next pair of
\* the batch of the shard
PutManyBody(t) ==
    LET call == threads[t]
        batch == shard_batches(shards, call.pairs)[call.shard_index]
        pair == batch[call.n + 1]
    IN  Body(t, "putMany", "locked",
             putInShard(shards[call.shard_index], pair[1], pair[2]),
             [call EXCEPT !.n = @ + 1,
                          !.pc = IF call.n + 1 = Len(batch) THEN "unlock" ELSE "locked"])

\* Store::clear, first statement of the critical section: shard.store.clear()
ClearStore(t) ==
    LET call == threads[t]
    IN  Body(t, "clear", "locked",
             [shards[call.shard_index] EXCEPT !.store = EmptyMap],
             [call EXCEPT !.pc = "clearList"])

\* Store::clear, second statement: shard.recencyList.clear()
ClearList(t) ==
    LET call == threads[t]
    IN  Body(t, "clear", "clearList",
             [shards[call.shard_index] EXCEPT !.recencyList = <<>>],
             [call EXCEPT !.pc = "unlock",
                          !.erased = @ \cup Range(RecencyKeys(shards[call.shard_index]))])

\* Store::list, the critical section: the shard is printed front to back
ListBody(t) ==
    LET call == threads[t]
    IN  Body(t, "list", "locked", shards[call.shard_index],
             [call EXCEPT !.pc = "unlock",
                          !.printed = ListShard(shards[call.shard_index])])

\* mutant: putMany goes through every shard, as clear and list do
Remaining_everyShard(call, i) ==
    IF call.op \in {"putMany", "clear", "list"} THEN {j \in DOMAIN shards : j > i} ELSE {}

\* the shards a call still has to lock after shard i
Remaining(call, i) ==
    CASE call.op = "putMany" -> {j \in Touched(call.pairs) : j > i}
      [] call.op \in {"clear", "list"} -> {j \in DOMAIN shards : j > i}
      [] OTHER -> {}

\* mutant: the mutex is locked and never unlocked
Release_never(t, i) == shardLock

\* mutant: the lock_guard of a shard lives until the call returns
Release_atReturn(t, i) ==
    IF Remaining(threads[t], i) = {}
    THEN [j \in DOMAIN shardLock |-> IF shardLock[j] = t THEN NoThread ELSE shardLock[j]]
    ELSE shardLock

\* ~lock_guard: the mutex of shard i is unlocked
Release(t, i) == [shardLock EXCEPT ![i] = NoThread]

\* the end of the scope of the lock_guard: the mutex is unlocked, and the thread
\* goes on to the lock_guard of the next shard of its loop or returns
Unlock(t) ==
    LET call == threads[t]
        i == call.shard_index
    IN  /\ call.pc = "unlock"
        /\ shardLock' = Release(t, i)
        /\ threads' = [threads EXCEPT ![t] =
                          IF Remaining(call, i) = {} THEN Idle
                          ELSE [call EXCEPT !.pc = "lock",
                                            !.shard_index = Least(Remaining(call, i)),
                                            !.n = 0, !.ret = FALSE, !.out = NoValue,
                                            !.printed = <<>>]]
        /\ UNCHANGED <<shards, reference, calls>>
        /\ UNCHANGED sequential
        /\ UNCHANGED unsharded

\* a step of thread t
Step(t) ==
    \/ \E key \in Keys : CallPut(t, key, ThreadValue(t))
    \/ \E key \in Keys : CallGet(t, key)
    \/ \E key \in Keys : CallDel(t, key)
    \/ \E key_value_pairs \in ThreadBatches(t) : CallPutMany(t, key_value_pairs)
    \/ CallClear(t)
    \/ CallList(t)
    \/ Lock(t)
    \/ PutBody(t)
    \/ GetBody(t)
    \/ DelBody(t)
    \/ PutManyBody(t)
    \/ ClearStore(t)
    \/ ClearList(t)
    \/ ListBody(t)
    \/ Unlock(t)

NextConc == \E t \in Threads : Step(t)

SpecConc == Init /\ [][NextConc]_vars

\* the steps of thread t inside a critical section and at its end
Run(t) ==
    \/ PutBody(t)
    \/ GetBody(t)
    \/ DelBody(t)
    \/ PutManyBody(t)
    \/ ClearStore(t)
    \/ ClearList(t)
    \/ ListBody(t)
    \/ Unlock(t)

\* SpecConcFair: the scheduler runs every thread that can run (weak fairness
\* of the steps that wait for nothing), and a thread that waits for a mutex
\* gets it if the mutex is free again and again (strong fairness of Lock).
\* A thread between two calls need not make another call.  The store has
\* MaxShards shards, the most locks a call can go through; their capacity, which
\* only decides what a critical section makes of its shard, is 1.
InitFair ==
    /\ Init
    /\ Cardinality(DOMAIN shards) = MaxShards
    /\ \A i \in DOMAIN shards : shards[i].capacity = 1

SpecConcFair ==
    /\ InitFair
    /\ [][NextConc]_vars
    /\ \A t \in Threads : WF_vars(Run(t)) /\ SF_vars(Lock(t))

\* ---------------------------------------------------------------------------
\* SpecKV: the KVStore of kv_store.{h,cpp}, an unordered_map from key to value
\* behind one mutex, next to a Store of one shard.  Every call of put, get and
\* del is made on both, on the Store as under Spec; kvOp keeps what the KVStore
\* returned and lastOp what the Store returned.
\* ---------------------------------------------------------------------------
\* mutant: put inserts and does not overwrite (store_.emplace(key, value))
KVStore_put_keepsValue(map, key, value) ==
    [k \in (DOMAIN map) \cup {key} |-> IF k \in DOMAIN map THEN map[k] ELSE value]

\* KVStore::put: store_[key] = value
KVStore_put(map, key, value) ==
    [k \in (DOMAIN map) \cup {key} |-> IF k = key THEN value ELSE map[k]]

\* KVStore::get; `value` is the content of the string the caller's pointer
\* designates
KVStore_get(map, key, value) ==
    IF found(map, key)
    THEN [ret |-> TRUE, value |-> map[key]]
    ELSE [ret |-> FALSE, value |-> value]

\* KVStore::del: store_.erase(key) > 0
KVStore_del(map, key) ==
    [map |-> map_erase(map, key), ret |-> found(map, key)]

\* a Store of one shard and an empty KVStore
InitKV ==
    /\ Init
    /\ Cardinality(DOMAIN shards) = 1

\* put(key, value) on the Store and on the KVStore
BothPut(key, value) ==
    /\ shards' = StorePut(shards, key, value)
    /\ lastOp' = Call("put", key, value, TRUE, NoValue, shards, shards')
    /\ store_' = KVStore_put(store_, key, value)
    /\ kvOp' = [ret |-> TRUE, out |-> NoValue]
    /\ UNCHANGED <<lastWritten, inserted, touches, study>>
    /\ UNCHANGED conc

\* get(key, value) on the Store and on the KVStore
BothGet(key, value) ==
    LET i == shardIndex(shards, key)
        r == getFromShard(shards[i], key, value)
        kv == KVStore_get(store_, key, value)
    IN  /\ shards' = [shards EXCEPT ![i] = r.shard]
        /\ lastOp' = Call("get", key, NoValue, r.ret, r.value, shards, shards')
        /\ kvOp' = [ret |-> kv.ret, out |-> kv.value]
        /\ UNCHANGED <<store_, lastWritten, inserted, touches, study>>
        /\ UNCHANGED conc

\* del(key) on the Store and on the KVStore
BothDel(key) ==
    LET i == shardIndex(shards, key)
        r == delFromShard(shards[i], key)
        kv == KVStore_del(store_, key)
    IN  /\ shards' = [shards EXCEPT ![i] = r.shard]
        /\ lastOp' = Call("del", key, NoValue, r.ret, NoValue, shards, shards')
        /\ store_' = kv.map
        /\ kvOp' = [ret |-> kv.ret, out |-> NoValue]
        /\ UNCHANGED <<lastWritten, inserted, touches, study>>
        /\ UNCHANGED conc

NextKV ==
    \/ \E key \in Keys, value \in Values : BothPut(key, value)
    \/ \E key \in Keys, value \in Values \cup {NoValue} : BothGet(key, value)
    \/ \E key \in Keys : BothDel(key)

SpecKV == InitKV /\ [][NextKV]_vars

\* ===========================================================================
\* Properties
\* ===========================================================================
ShardIds == DOMAIN shards

\* the index of a shard as a set of keys
IndexKeys(shard) == DOMAIN shard.store

\* C1. Capacity invariant: in every state reachable by put, get, del, putMany
\* and clear, every shard of a store built with capacity C >= 1 holds at most
\* C keys in its index.
C1_CapacityInvariant ==
    \A i \in ShardIds : Cardinality(IndexKeys(shards[i])) <= shards[i].capacity

\* a put has just evicted a key from a shard that is full again
C1_Witness ==
    /\ lastOp.name = "put"
    /\ lastOp.removed # {}
    /\ LET shard == shards[shardIndex(shards, lastOp.key)]
       IN  Cardinality(IndexKeys(shard)) = shard.capacity

\* C2. Index/recency consistency: in every reachable state of every shard the
\* keys of the index are the keys of the recency list, the recency list holds
\* no key twice, and so both have the same size.
C2_IndexRecencyConsistent ==
    \A i \in ShardIds :
        LET keys == RecencyKeys(shards[i])
        IN  /\ Range(keys) = IndexKeys(shards[i])
            /\ \A m, n \in 1..Len(keys) : keys[m] = keys[n] => m = n
            /\ Cardinality(IndexKeys(shards[i])) = Len(shards[i].recencyList)

\* a del has just removed one of several keys of a shard
C2_Witness ==
    /\ lastOp.name = "del"
    /\ lastOp.ret
    /\ shards[shardIndex(shards, lastOp.key)].recencyList # <<>>

\* what a put of `key` that took the shards from `ss` to `tt` did to the shard of
\* `key` when the key was not in it: a full shard lost exactly the key at the
\* back of its recency list, a shard with room lost none; the key is now at
\* the front and the keys that stayed keep their order
InsertedInto(key, ss, tt) ==
    LET pre == ss[shardIndex(ss, key)]
        post == tt[shardIndex(ss, key)]
        keys == RecencyKeys(pre)
        kept == IF Cardinality(IndexKeys(pre)) >= pre.capacity
                THEN SubSeq(keys, 1, Len(keys) - 1)
                ELSE keys
    IN  /\ IndexKeys(post) = Range(kept) \cup {key}
        /\ IndexKeys(pre) \ IndexKeys(post) = Range(keys) \ Range(kept)
        /\ Cardinality(Range(keys) \ Range(kept)) =
              IF Cardinality(IndexKeys(pre)) >= pre.capacity THEN 1 ELSE 0
        /\ RecencyKeys(post) = <<key>> \o kept

\* C3. Eviction correctness: a put of an absent key into a shard with
\* |index| >= capacity removes exactly one key, the one at the back of the
\* recency list, and a put into a shard with room removes none; and C+1
\* distinct keys put into an empty shard of capacity C, with no other call on
\* the shard in between, leave exactly the keys after the first.
C3_EvictionCorrect ==
    /\ [][\A key \in Keys, value \in Values :
            (BatchPut(key, value) /\ key \notin IndexKeys(shards[shardIndex(shards, key)]))
                => InsertedInto(key, shards, shards')]_vars
    /\ [](\A i \in ShardIds :
            inserted[i].tracked =>
                LET keys == inserted[i].keys
                IN  IndexKeys(shards[i]) =
                        IF Len(keys) <= shards[i].capacity
                        THEN Range(keys)
                        ELSE Range(keys) \ {keys[1]})

\* three distinct keys have been put into an empty shard of capacity 2
C3_Witness ==
    \E i \in ShardIds :
        /\ shards[i].capacity = 2
        /\ inserted[i].tracked
        /\ Len(inserted[i].keys) = 3
        /\ inserted[i].keys[1] \notin IndexKeys(shards[i])

\* a sequence without the element `key`
Without(keys, key) == SelectSeq(keys, LAMBDA k : k # key)

\* the values of a shard: key -> value
ValuesOf(shard) == [k \in IndexKeys(shard) |-> shard.store[k].value]

\* what a call on the present key `key` that took the shards from `ss` to `tt`
\* did to the recency list of its shard: the key is at the front, on the node
\* its entry designates, and the other keys keep their order; the index holds
\* the same keys
MovedToFront(key, ss, tt) ==
    LET pre == ss[shardIndex(ss, key)]
        post == tt[shardIndex(ss, key)]
    IN  /\ RecencyKeys(post) = <<key>> \o Without(RecencyKeys(pre), key)
        /\ post.store[key].recencyIt = begin(post.recencyList)
        /\ IndexKeys(post) = IndexKeys(pre)

\* the step is a put that evicts from the shard the call before it was on
EvictsAfter(name) ==
    /\ lastOp.name = name
    /\ lastOp.present
    /\ lastOp'.name = "put"
    /\ shardIndex(shards, lastOp'.key) = shardIndex(shards, lastOp.key)
    /\ lastOp'.removed # {}

\* a get of a present key returns its value, changes no value and moves the key
\* to the front of the recency list of its shard
GetRefreshes ==
    (lastOp'.name = "get" /\ lastOp'.ret) =>
        LET i == shardIndex(shards, lastOp'.key)
        IN  /\ MovedToFront(lastOp'.key, shards, shards')
            /\ ValuesOf(shards'[i]) = ValuesOf(shards[i])
            /\ lastOp'.out = shards[i].store[lastOp'.key].value

\* C4 as stated: a get of a present key moves the key to the most-recently-used
\* end of the recency list, so that the next eviction in the shard removes some
\* other key.
C4_AsStated ==
    [][/\ GetRefreshes
       /\ EvictsAfter("get") => lastOp.key \notin lastOp'.removed]_vars

\* C4. Recency refresh on read: a get of a present key moves the key to the
\* most-recently-used end of the recency list of its shard; a put that evicts
\* from the shard right after it removes some other key when the shard holds
\* at least two keys (in a shard of capacity 1 it removes the key just read).
C4_RecencyRefreshOnRead ==
    [][/\ GetRefreshes
       /\ (/\ EvictsAfter("get")
           /\ Cardinality(IndexKeys(shards[shardIndex(shards, lastOp.key)])) >= 2)
            => lastOp.key \notin lastOp'.removed
       /\ (/\ EvictsAfter("get")
           /\ Cardinality(IndexKeys(shards[shardIndex(shards, lastOp.key)])) = 1)
            => lastOp'.removed = {lastOp.key}]_vars

\* a get has just found a key in a full shard of two keys
C4_Witness ==
    /\ lastOp.name = "get"
    /\ lastOp.ret
    /\ LET shard == shards[shardIndex(shards, lastOp.key)]
       IN  /\ shard.capacity = 2
           /\ Len(shard.recencyList) = 2
           /\ shard.recencyList[1].key = lastOp.key

\* C5. Recency refresh on write: a put of a present key overwrites its value,
\* leaves the other values, and moves the key to the most-recently-used end of
\* the recency list of its shard; a put that evicts from a shard of two or more
\* keys right after it removes some other key.
C5_RecencyRefreshOnWrite ==
    [][/\ (lastOp'.name = "put" /\ lastOp'.present) =>
            LET i == shardIndex(shards, lastOp'.key)
            IN  /\ MovedToFront(lastOp'.key, shards, shards')
                /\ ValuesOf(shards'[i]) =
                      [ValuesOf(shards[i]) EXCEPT ![lastOp'.key] = lastOp'.value]
       /\ (/\ EvictsAfter("put")
           /\ Cardinality(IndexKeys(shards[shardIndex(shards, lastOp.key)])) >= 2)
            => lastOp.key \notin lastOp'.removed]_vars

\* a put has just overwritten a key in a full shard of two keys
C5_Witness ==
    /\ lastOp.name = "put"
    /\ lastOp.present
    /\ LET shard == shards[shardIndex(shards, lastOp.key)]
       IN  /\ shard.capacity = 2
           /\ Len(shard.recencyList) = 2
           /\ shard.store[lastOp.key].value = lastOp.value

\* C6. Overwrite does not change size: a put whose key is in its shard evicts
\* nothing and leaves the key set of every shard as it was, also when the
\* shard is at capacity; and the same holds of putInShard, which putMany
\* applies to each of its pairs, for every present key of every shard.
C6_OverwriteKeepsSize ==
    /\ [][(lastOp'.name = "put" /\ lastOp'.present) =>
            /\ lastOp'.removed = {}
            /\ \A i \in ShardIds : IndexKeys(shards'[i]) = IndexKeys(shards[i])]_vars
    /\ [](\A i \in ShardIds : \A key \in IndexKeys(shards[i]) : \A value \in Values :
            LET post == putInShard(shards[i], key, value)
            IN  /\ IndexKeys(post) = IndexKeys(shards[i])
                /\ Range(RecencyKeys(post)) = Range(RecencyKeys(shards[i])))

\* a put has just overwritten a key of a shard that is at capacity
C6_Witness ==
    /\ lastOp.name = "put"
    /\ lastOp.present
    /\ LET shard == shards[shardIndex(shards, lastOp.key)]
       IN  Cardinality(IndexKeys(shard)) = shard.capacity

\* C7. Put/get agreement: a get(k) right after put(k, v) returns found and v;
\* whenever a get(k) returns found, the value is that of the most recent put
\* or putMany pair for k; every live key holds the value last written to it.
C7_PutGetAgree ==
    /\ [][/\ (lastOp.name = "put" /\ lastOp'.name = "get" /\ lastOp'.key = lastOp.key)
                => (lastOp'.ret /\ lastOp'.out = lastOp.value)
          /\ (lastOp'.name = "get" /\ lastOp'.ret)
                => (lastOp'.out = lastWritten[lastOp'.key] /\ lastOp'.out \in Values)]_vars
    /\ [](\A i \in ShardIds : \A key \in IndexKeys(shards[i]) :
            shards[i].store[key].value = lastWritten[key])

\* a get has just returned the value "v2" of a key
C7_Witness ==
    /\ lastOp.name = "get"
    /\ lastOp.ret
    /\ lastOp.out = "v2"
    /\ lastOp.out = lastWritten[lastOp.key]

\* C8. Delete: del(k) returns true exactly when k is in its shard when the call
\* begins; after it k is neither in the index nor in the recency list and no
\* other key is gone; a get(k) that follows returns not-found, and k stays
\* absent until a put or putMany writes it.
C8_Delete ==
    /\ [](lastOp.name = "del" =>
            LET shard == shards[shardIndex(shards, lastOp.key)]
            IN  /\ lastOp.ret = lastOp.present
                /\ lastOp.key \notin IndexKeys(shard)
                /\ lastOp.key \notin Range(RecencyKeys(shard))
                /\ lastOp.removed = IF lastOp.ret THEN {lastOp.key} ELSE {}
                /\ ~getFromShard(shard, lastOp.key, NoValue).ret)
    /\ [][/\ (lastOp.name = "del" /\ lastOp'.name = "get" /\ lastOp'.key = lastOp.key)
                => ~lastOp'.ret
          /\ \A key \in LiveKeys(shards') \ LiveKeys(shards) :
                \/ lastOp'.name = "put" /\ lastOp'.key = key
                \/ lastOp'.name = "putMany"
          /\ lastOp'.name = "get" => lastOp'.ret = lastOp'.present]_vars

\* a del has just removed a key and returned true
C8_Witness ==
    /\ lastOp.name = "del"
    /\ lastOp.ret
    /\ lastOp.removed = {lastOp.key}

\* C9. Clear empties all shards: after clear() the index and the recency list
\* of every shard are empty and a get of any key returns not-found.
C9_ClearEmptiesAll ==
    lastOp.name = "clear" =>
        /\ \A i \in ShardIds :
              /\ IndexKeys(shards[i]) = {}
              /\ shards[i].recencyList = <<>>
        /\ \A key \in Keys :
              ~getFromShard(shards[shardIndex(shards, key)], key, NoValue).ret

\* a clear has just removed keys from both shards of a store of two shards
C9_Witness ==
    /\ lastOp.name = "clear"
    /\ Cardinality(ShardIds) = 2
    /\ \A i \in ShardIds : \E key \in lastOp.removed : shardIndex(shards, key) = i

\* ------------------------------------------------------------ putMany
\* the keys of a sequence of pairs are distinct
DistinctKeys(pairs) ==
    \A m, n \in 1..Len(pairs) : pairs[m][1] = pairs[n][1] => m = n

\* the orders in which n pairs can be applied: the permutations of 1..n
Orders(n) == {f \in [1..n -> 1..n] : \A a, b \in 1..n : f[a] = f[b] => a = b}

\* the pairs in the order f
Reordered(pairs, f) == [n \in 1..Len(pairs) |-> pairs[f[n]]]

\* the pairs applied one at a time with single-key put
RECURSIVE PutAll(_, _)
PutAll(ss, pairs) ==
    IF pairs = <<>> THEN ss
    ELSE PutAll(StorePut(ss, Head(pairs)[1], Head(pairs)[2]), Tail(pairs))

\* the contents of a store: for every shard, its live keys with their values
Contents(ss) == [i \in DOMAIN ss |-> ValuesOf(ss[i])]

\* the order f keeps the input order among the pairs routed to one shard
KeepsShardOrder(ss, pairs, f) ==
    \A m, n \in 1..Len(pairs) :
        (m < n /\ shardIndex(ss, pairs[f[m]][1]) = shardIndex(ss, pairs[f[n]][1]))
            => f[m] < f[n]

\* every shard has room for its keys and the keys the pairs bring
NoOverflow(ss, pairs) ==
    \A i \in DOMAIN ss :
        Cardinality(IndexKeys(ss[i]) \cup
                    {pairs[n][1] : n \in {m \in 1..Len(pairs) :
                                            shardIndex(ss, pairs[m][1]) = i}})
            <= ss[i].capacity

\* C10 as stated: pairs with distinct keys applied with one putMany call leave
\* the same store contents as the same pairs applied one at a time with put,
\* in any order of the single puts.
C10_AsStated ==
    (Studied /\ DistinctKeys(study.pairs)) =>
        \A f \in Orders(Len(study.pairs)) :
            Contents(shards) = Contents(PutAll(study.before, Reordered(study.pairs, f)))

\* C10. Batch equivalence: pairs with distinct keys applied with one putMany
\* call leave the same store contents as the same pairs applied one at a time
\* with put, in any order that keeps the input order among the pairs routed to
\* one shard, and in any order at all when no shard has to evict.
C10_BatchEquivalence ==
    (Studied /\ DistinctKeys(study.pairs)) =>
        \A f \in Orders(Len(study.pairs)) :
            (\/ KeepsShardOrder(study.before, study.pairs, f)
             \/ NoOverflow(study.before, study.pairs))
                => Contents(shards) =
                      Contents(PutAll(study.before, Reordered(study.pairs, f)))

\* a putMany of two distinct keys of one shard has evicted the first of them
C10_Witness ==
    /\ Studied
    /\ Len(study.pairs) = 2
    /\ DistinctKeys(study.pairs)
    /\ shardIndex(shards, study.pairs[1][1]) = shardIndex(shards, study.pairs[2][1])
    /\ study.pairs[1][1] \notin LiveKeys(shards)
    /\ study.pairs[2][1] \in LiveKeys(shards)

\* ------------------------------------------------------------ threads
\* the number of keys in the indexes of the shards 0..(n - 1)
RECURSIVE LiveCount(_, _)
LiveCount(ss, n) ==
    IF n = 0 THEN 0
    ELSE LiveCount(ss, n - 1) + Cardinality(IndexKeys(ss[n - 1]))

\* every thread is between two calls
AllIdle == \A t \in Threads : threads[t].pc = "idle"

\* thread t is inside a critical section of shard i
InCriticalSection(t, i) ==
    /\ threads[t].pc \in {"locked", "clearList", "unlock"}
    /\ threads[t].shard_index = i

\* C11. Concurrent safety: under any interleaving of threads that call put,
\* get, del and putMany (and clear and list) on one store, the number of live
\* keys never exceeds shardCount * shardCapacity, and once all threads have
\* stopped the index and the recency list of every shard have the same size.
C11_ConcurrentSafety ==
    /\ LiveCount(shards, Cardinality(ShardIds))
          <= Cardinality(ShardIds) * shards[0].capacity
    /\ AllIdle =>
          \A i \in ShardIds :
              Cardinality(IndexKeys(shards[i])) = Len(shards[i].recencyList)

\* a thread waits for the lock of a full shard while another thread, inside the
\* critical section, writes to that shard
C11_Witness ==
    \E t, u \in Threads, i \in ShardIds :
        /\ InCriticalSection(t, i)
        /\ threads[t].op \in {"put", "putMany"}
        /\ threads[u].pc = "lock"
        /\ threads[u].shard_index = i
        /\ threads[u].op \in {"put", "putMany"}
        /\ Cardinality(IndexKeys(shards[i])) = shards[i].capacity

\* no thread is inside a critical section of shard i
Quiet(i) == \A t \in Threads : ~InCriticalSection(t, i)

\* C12. Per-key linearizability: in every concurrent execution, what a put, get
\* or del call returns (and what get assigns) is what a sequential LRU shard
\* returns that executes the calls on the shard one after another in the order
\* in which they acquired the lock of the shard, and between two critical
\* sections the shard is in the state of that sequential shard.
C12_Linearizable ==
    /\ \A t \in Threads :
          (threads[t].pc = "unlock" /\ threads[t].op \in {"put", "get", "del"}) =>
              /\ threads[t].ret = threads[t].expect.ret
              /\ threads[t].out = threads[t].expect.value
    /\ \A i \in ShardIds : Quiet(i) => shards[i] = reference[i]

\* a get has found the value another thread wrote, and that thread is waiting
\* for the lock of the shard again
C12_Witness ==
    \E t, u \in Threads :
        /\ t # u
        /\ threads[t].pc = "unlock"
        /\ threads[t].op = "get"
        /\ threads[t].ret
        /\ threads[t].out = ThreadValue(u)
        /\ threads[u].pc = "lock"
        /\ threads[u].op = "del"
        /\ threads[u].key = threads[t].key

\* the shards whose lock thread t holds
Held(t) == {i \in ShardIds : shardLock[i] = t}

\* C13. At most one lock per thread: in every reachable state no thread inside
\* put, get, del, putMany, clear or list holds the lock of more than one shard,
\* and a thread that is about to acquire a lock (in putMany, clear and list:
\* the lock of the next shard) or is between two calls holds none.
C13_OneLockPerThread ==
    \A t \in Threads :
        /\ Cardinality(Held(t)) <= 1
        /\ threads[t].pc \in {"idle", "lock"} => Held(t) = {}

\* a thread is inside the critical section of the second shard of its loop,
\* having locked and released the first
C13_Witness ==
    \E t \in Threads :
        /\ threads[t].op \in {"putMany", "clear", "list"}
        /\ threads[t].pc = "locked"
        /\ Len(threads[t].locked) = 2
        /\ Held(t) = {threads[t].shard_index}

\* thread t waits for a mutex that another thread holds
Blocked(t) ==
    /\ threads[t].pc = "lock"
    /\ ~mutexFree(threads[t].shard_index)

\* C14. No deadlock, every operation completes: under fair scheduling of the
\* threads and fair lock acquisition every started put, get, del, putMany,
\* clear and list returns (the threads make MaxCalls calls in all, so whenever
\* a call is in progress a state follows in which none is), a lock that is
\* held is held by a thread inside its critical section and no lock is held
\* once the calls have returned, and in no reachable state are all threads
\* that are inside a call waiting for a lock.
C14_EveryCallReturns ==
    /\ (~AllIdle) ~> AllIdle
    /\ [](\A i \in DOMAIN shardLock :
             shardLock[i] # NoThread => InCriticalSection(shardLock[i], i))
    /\ [](AllIdle \/ \E t \in Threads : threads[t].pc # "idle" /\ ~Blocked(t))

\* a thread waits for the lock of a shard that another thread holds in the
\* second turn of its loop over the shards
C14_Witness ==
    \E t, u \in Threads :
        /\ Blocked(t)
        /\ shardLock[threads[t].shard_index] = u
        /\ Len(threads[u].locked) = 2

\* ------------------------------------------------------------ routing
\* C15. Deterministic routing: shardIndex(key) is an index in [0, shardCount)
\* that depends on the key and the shard count only: no operation changes the
\* shard count or the index of any key, so every operation on a key is
\* delegated to the same shard and a key is only ever found in that shard.
C15_DeterministicRouting ==
    /\ [][\A key \in Keys : shardIndex(shards', key) = shardIndex(shards, key)]_vars
    /\ [](\A key \in Keys :
             /\ shardIndex(shards, key) \in 0..(Cardinality(ShardIds) - 1)
             /\ shardIndex(shards, key) = Hash(key) % Cardinality(ShardIds)
             /\ \A i \in ShardIds :
                   key \in IndexKeys(shards[i]) => i = shardIndex(shards, key))

\* a get finds a key in the second shard of a store whose first shard holds
\* another key
C15_Witness ==
    /\ lastOp.name = "get"
    /\ lastOp.ret
    /\ shardIndex(shards, lastOp.key) = 1
    /\ IndexKeys(shards[0]) # {}

\* ------------------------------------------------------------ recency
\* C16. LRU order invariant: in every reachable state the recency list of every
\* shard holds the keys of the shard from the most recent last touch (insert
\* by put or putMany, overwrite, successful get) at the front to the oldest at
\* the back; the key at the back of a non-empty shard is its least recently
\* touched key.
C16_RecencyIsTouchOrder ==
    \A i \in ShardIds :
        /\ RecencyKeys(shards[i]) = touches[i]
        /\ shards[i].recencyList # <<>> =>
              back(shards[i].recencyList) = touches[i][Len(touches[i])]

\* a successful get has made its key the last touched of the two keys of a shard
C16_Witness ==
    /\ lastOp.name = "get"
    /\ lastOp.ret
    /\ LET order == touches[shardIndex(shards, lastOp.key)]
       IN  /\ Len(order) = 2
           /\ order[1] = lastOp.key
           /\ back(shards[shardIndex(shards, lastOp.key)].recencyList) = order[2]

\* the positions of the recency list of `shard` whose node the iterator `it`
\* designates
Designated(shard, it) ==
    {n \in 1..Len(shard.recencyList) : shard.recencyList[n].node = it}

\* C17. Entry position invariant: in every reachable state, for every key k of
\* the index of a shard, the iterator recencyIt of its Entry designates a node
\* that is in the recency list of that shard, exactly one, and that node holds
\* k; insert, overwrite, get, eviction, del and clear keep it.
C17_EntryPosition ==
    \A i \in ShardIds :
        \A k \in IndexKeys(shards[i]) :
            LET at == Designated(shards[i], shards[i].store[k].recencyIt)
            IN  /\ Cardinality(at) = 1
                /\ \A n \in at : shards[i].recencyList[n].key = k

\* a putMany has evicted a key from a shard that holds two keys, whose entries
\* designate the two nodes of its list
C17_Witness ==
    /\ lastOp.name = "putMany"
    /\ lastOp.removed # {}
    /\ \E i \in ShardIds :
          /\ Cardinality(IndexKeys(shards[i])) = 2
          /\ {shards[i].store[k].recencyIt : k \in IndexKeys(shards[i])}
                = Nodes(shards[i].recencyList)

\* ------------------------------------------------------------ locks
\* thread t takes a step
Steps(t) == threads'[t] # threads[t]

\* C18. Mutual exclusion per shard: in every reachable state at most one thread
\* is inside a critical section of a given shard, and it holds the lock of
\* that shard; every step that reads or writes the index or the recency list
\* of a shard (a statement of put, get, del, putMany, clear or list) is taken
\* by the thread that holds the lock of that shard.  Threads are inside
\* critical sections at the same time only for different shards.
C18_MutualExclusion ==
    /\ [](\A i \in ShardIds :
             /\ Cardinality({t \in Threads : InCriticalSection(t, i)}) <= 1
             /\ \A t \in Threads : InCriticalSection(t, i) => shardLock[i] = t)
    /\ [][\A t \in Threads :
             (Steps(t) /\ threads[t].pc \in {"locked", "clearList"})
                 => shardLock[threads[t].shard_index] = t]_vars
    /\ [][\A i \in ShardIds :
             shards'[i] # shards[i] =>
                 \E t \in Threads :
                     /\ shardLock[i] = t
                     /\ Steps(t)
                     /\ threads[t].pc \in {"locked", "clearList"}
                     /\ threads[t].shard_index = i]_vars

\* two threads are inside critical sections at the same time, one writing to
\* the first shard and one to the second
C18_Witness ==
    \E t, u \in Threads :
        /\ threads[t].pc = "unlock"
        /\ threads[t].shard_index = 0
        /\ threads[t].op = "put"
        /\ threads[u].pc = "unlock"
        /\ threads[u].shard_index = 1
        /\ threads[u].op = "put"

\* ------------------------------------------------------------ putMany order
\* C19. putMany keeps input order inside each shard: the pairs of a batch that
\* route to one shard are applied to it in the order of the input, so the
\* index, the values and the recency order of every shard after putMany, and
\* with them the evictions, are those of single puts of the pairs in input
\* order, and a key of the batch that is in the store after the call has the
\* value of its last occurrence in the batch.
C19_InputOrder ==
    Studied =>
        /\ shards = PutAll(study.before, study.pairs)
        /\ \A n \in 1..Len(study.pairs) :
              LET k == study.pairs[n][1]
                  shard == shards[shardIndex(shards, k)]
              IN  found(shard.store, k) =>
                      shard.store[k].value = LastValue(study.pairs, k, NoValue)

\* a putMany has written a key twice, with two values
C19_Witness ==
    /\ Studied
    /\ Len(study.pairs) = 2
    /\ study.pairs[1][1] = study.pairs[2][1]
    /\ study.pairs[1][2] # study.pairs[2][2]
    /\ study.pairs[1][1] \in LiveKeys(shards)

\* the elements of `indices` in ascending order
RECURSIVE Ascending(_)
Ascending(indices) ==
    IF indices = {} THEN <<>>
    ELSE <<Least(indices)>> \o Ascending(indices \ {Least(indices)})

\* C20. putMany locks each touched shard exactly once: during a putMany call
\* the locks acquired are those of the shards that received a pair, each once
\* (a shard without a pair is never locked); all pairs of a shard are applied
\* in the one critical section of that shard, during which no other thread
\* changes the shard, so that at its end the shard is what the batch makes of
\* the shard the thread found.
C20_OneLockPerShard ==
    /\ [](\A t \in Threads :
             threads[t].op = "putMany" =>
                 LET call == threads[t]
                     i == call.shard_index
                     batch == shard_batches(shards, call.pairs)[i]
                     upTo == {j \in Touched(call.pairs) : j <= i}
                 IN  /\ i \in Touched(call.pairs)
                     /\ call.pc = "lock" => call.locked = Ascending(upTo \ {i})
                     /\ call.pc \in {"locked", "unlock"} => call.locked = Ascending(upTo)
                     /\ call.pc = "locked" => call.n < Len(batch)
                     /\ call.pc = "unlock" =>
                           (call.n = Len(batch) /\ shards[i] = reference[i]))
    /\ [][\A t \in Threads :
             (threads[t].op = "putMany" /\ threads'[t] = Idle) =>
                 threads[t].locked = Ascending(Touched(threads[t].pairs))]_vars
    /\ [][\A t \in Threads :
             (threads[t].op = "putMany" /\ threads[t].pc = "locked" /\ ~Steps(t)) =>
                 shards'[threads[t].shard_index] = shards[threads[t].shard_index]]_vars

\* a putMany has applied the first of the two pairs of a shard while another
\* thread waits for the lock of that shard
C20_Witness ==
    \E t, u \in Threads :
        /\ threads[t].op = "putMany"
        /\ threads[t].pc = "locked"
        /\ threads[t].n = 1
        /\ threads[u].pc = "lock"
        /\ threads[u].op \in {"put", "del", "clear"}
        /\ threads[u].shard_index = threads[t].shard_index

\* ------------------------------------------------------------ misses
\* key is absent from the index of its shard
Absent(key) == ~found(shards[shardIndex(shards, key)].store, key)

\* C21. A miss changes nothing: a get or a del of a key that is absent from its
\* shard returns false and leaves the index, the values and the recency list
\* of every shard as they were, and get leaves the caller's output string as
\* the caller passed it.
C21_MissChangesNothing ==
    [][(lastOp'.name \in {"get", "del"} /\ Absent(lastOp'.key)) =>
          /\ ~lastOp'.ret
          /\ shards' = shards
          /\ lastOp'.name = "get" =>
                \A value \in Values \cup {NoValue} :
                    get(lastOp'.key, value) => lastOp'.out = value]_vars

\* a get has missed in a shard that holds another key, and the caller's output
\* string still holds what the caller had put in it
C21_Witness ==
    /\ lastOp.name = "get"
    /\ ~lastOp.present
    /\ ~lastOp.ret
    /\ lastOp.out \in Values
    /\ IndexKeys(shards[shardIndex(shards, lastOp.key)]) # {}

\* ------------------------------------------------------------ list
\* C22. list is read-only: no step of a list call changes the index, the
\* values or the recency list of any shard; what it prints for a shard are the
\* keys of the recency list of that shard from its front (the most recently
\* used key) to its back, each with its value; and it reads a shard while it
\* holds the lock of that shard and of no other, a shard no other thread
\* changes meanwhile.
C22_ListReadOnly ==
    /\ [][\A t \in Threads :
             (Steps(t) /\ (threads[t].op = "list" \/ threads'[t].op = "list"))
                 => shards' = shards]_vars
    /\ [][\A t \in Threads :
             (Steps(t) /\ threads[t].op = "list" /\ threads[t].pc = "locked")
                 => Held(t) = {threads[t].shard_index}]_vars
    /\ [](\A t \in Threads :
             (threads[t].op = "list" /\ threads[t].pc = "unlock") =>
                 LET shard == shards[threads[t].shard_index]
                     lines == threads[t].printed
                 IN  /\ Held(t) = {threads[t].shard_index}
                     /\ shard = reference[threads[t].shard_index]
                     /\ Len(lines) = Len(shard.recencyList)
                     /\ \A n \in 1..Len(lines) :
                           /\ lines[n][1] = shard.recencyList[n].key
                           /\ lines[n][2] = shard.store[lines[n][1]].value)

\* a list call has printed the two keys of a shard while another thread waits
\* for the lock of that shard
C22_Witness ==
    \E t, u \in Threads :
        /\ threads[t].op = "list"
        /\ threads[t].pc = "unlock"
        /\ Len(threads[t].printed) = 2
        /\ threads[u].pc = "lock"
        /\ threads[u].shard_index = threads[t].shard_index

\* ------------------------------------------------------------ clear
\* the index of shard i is empty and its recency list is not, or the reverse
Torn(i) == (shards[i].store = EmptyMap) # (shards[i].recencyList = <<>>)

\* C23. clear is not atomic across shards, and atomic for each shard: a shard
\* whose index is empty while its recency list is not is between the two
\* statements of the critical section of a clear call, whose thread holds its
\* lock; until that critical section ends no other thread is inside a
\* critical section of the shard or changes it, and at its end the index and
\* the recency list are both empty.  Between two shards the call holds no
\* lock, and the witness shows a get of another thread that finds its key in a
\* later shard after clear has erased the keys of an earlier one.
C23_ClearPerShard ==
    /\ [](\A i \in ShardIds :
             Torn(i) =>
                 \E t \in Threads :
                     /\ shardLock[i] = t
                     /\ threads[t].op = "clear"
                     /\ threads[t].pc = "clearList"
                     /\ threads[t].shard_index = i)
    /\ [](\A t \in Threads :
             threads[t].op = "clear" =>
                 LET i == threads[t].shard_index
                 IN  /\ threads[t].pc \in {"locked", "clearList", "unlock"} =>
                           \A u \in Threads \ {t} : ~InCriticalSection(u, i)
                     /\ threads[t].pc = "unlock" =>
                           /\ shards[i].store = EmptyMap
                           /\ shards[i].recencyList = <<>>
                     /\ threads[t].pc = "lock" => Held(t) = {})
    /\ [][\A t \in Threads :
             (threads[t].op = "clear" /\ threads[t].pc \in {"clearList", "unlock"}
                 /\ ~Steps(t))
                 => shards'[threads[t].shard_index] = shards[threads[t].shard_index]]_vars

\* a thread inside clear has erased the keys of the first shard and waits for
\* the lock of the second; the thread that holds that lock is inside get, which
\* has found its key in the second shard after the first was emptied
C23_Witness ==
    \E t, u \in Threads :
        /\ threads[t].op = "clear"
        /\ threads[t].locked = <<0>>
        /\ threads[t].erased # {}
        /\ threads[t].pc = "lock"
        /\ threads[t].shard_index = 1
        /\ shards[0].store = EmptyMap
        /\ threads[u].op = "get"
        /\ threads[u].pc = "unlock"
        /\ threads[u].shard_index = 1
        /\ threads[u].ret
        /\ threads[u].erased = threads[t].erased

\* ------------------------------------------------------------ KVStore
\* the last call returned the same from the Store and from the KVStore: the
\* same flag, and for get the same string
SameResults ==
    /\ lastOp.ret = kvOp.ret
    /\ lastOp.out = kvOp.out

\* the KVStore and the one shard of the Store hold the same keys with the same
\* values
SameContents ==
    /\ DOMAIN store_ = IndexKeys(shards[0])
    /\ \A k \in DOMAIN store_ : store_[k] = shards[0].store[k].value

\* a put of key finds the shard full and key absent: the Store evicts
Overflows(key) == ~found(shards[0].store, key) /\ atCapacity(shards[0])

\* C24 as stated: after every sequence of put, get and del calls the KVStore
\* has returned what a Store of one shard has returned.
C24_AsStated == SameResults

\* C24. The KVStore is equivalent to a Store of one shard as long as no put
\* finds the shard full and its key absent: from a state in which both hold
\* the same keys and values (as they do when constructed), every put, get and
\* del returns the same flag and the same value from both, and leaves both
\* with the same keys and values unless it is such a put, which makes the
\* Store evict a key that the KVStore keeps.
C24_EquivalentWithinCapacity ==
    [][SameContents =>
          /\ SameResults'
          /\ (\A key \in Keys, value \in Values :
                  BothPut(key, value) => ~Overflows(key))
                => SameContents']_vars

\* both hold as many keys as the shard can hold, with two values, and a get
\* has returned the value of its key from both
C24_Witness ==
    /\ SameContents
    /\ atCapacity(shards[0])
    /\ lastOp.name = "get"
    /\ lastOp.ret
    /\ kvOp.ret
    /\ kvOp.out \in Values
    /\ kvOp.out = lastOp.out
    /\ \E k \in DOMAIN store_ : store_[k] # kvOp.out

\* ------------------------------------------------------------ isolation
\* the keys that route to shard i
KeysOf(i) == {k \in Keys : shardIndex(shards, k) = i}

\* C25. Shard isolation: a put, get or del of key k leaves the index, the
\* values and the recency list of every shard other than shardIndex(k) as they
\* were; what it returns and what it removes is decided by that shard alone:
\* get and del succeed exactly when k is in its index, a put evicts exactly
\* when k is absent from it and it holds capacity keys, however many keys the
\* other shards hold, and the evicted key is a key of that shard.
C25_ShardIsolation ==
    [][lastOp'.name \in {"put", "get", "del"} =>
          LET k == lastOp'.key
              i == shardIndex(shards, k)
              full == Cardinality(IndexKeys(shards[i])) >= shards[i].capacity
          IN  /\ \A j \in ShardIds \ {i} : shards'[j] = shards[j]
              /\ lastOp'.removed \subseteq KeysOf(i)
              /\ lastOp'.name \in {"get", "del"} =>
                    lastOp'.ret = (k \in IndexKeys(shards[i]))
              /\ lastOp'.name = "put" =>
                    /\ k \in IndexKeys(shards'[i])
                    /\ (lastOp'.removed # {}) = (k \notin IndexKeys(shards[i]) /\ full)]_vars

\* a put has evicted a key of its full shard while another shard is empty
C25_Witness ==
    /\ lastOp.name = "put"
    /\ lastOp.removed # {}
    /\ lastOp.removed \subseteq KeysOf(shardIndex(shards, lastOp.key))
    /\ \E j \in ShardIds : shards[j].store = EmptyMap

\* ------------------------------------------------------------ putMany capacity
\* the keys of the pairs, in the order of the pairs
KeysIn(pairs) == [n \in 1..Len(pairs) |-> pairs[n][1]]

\* the distinct keys of the pairs that route to shard i, the key whose last
\* occurrence is latest first
BatchKeys(ss, i, pairs) == Touch(<<>>, RoutedTo(ss, i, KeysIn(pairs)))

\* C26. putMany completeness is bounded by the shard capacity: after a putMany
\* call, for every shard, when the distinct keys of the batch that route to it
\* are at most capacity, each of them is in the index with the value of its
\* last occurrence; when they are more, the index holds exactly the capacity
\* of them whose last occurrences are latest, each with the value of its last
\* occurrence, and the others were evicted by later pairs of the batch.
C26_BoundedByCapacity ==
    Studied =>
        \A i \in ShardIds :
            LET keys == BatchKeys(shards, i, study.pairs)
                kept == IF Len(keys) <= shards[i].capacity THEN keys
                        ELSE SubSeq(keys, 1, shards[i].capacity)
            IN  /\ Range(kept) \subseteq IndexKeys(shards[i])
                /\ Len(keys) > shards[i].capacity => IndexKeys(shards[i]) = Range(kept)
                /\ \A k \in Range(kept) :
                      shards[i].store[k].value = LastValue(study.pairs, k, NoValue)

\* a putMany has brought two keys to a shard of capacity 1 that held a key: the
\* second pair has evicted the key of the first
C26_Witness ==
    /\ Studied
    /\ Len(study.pairs) = 2
    /\ \E i \in ShardIds :
          /\ shards[i].capacity = 1
          /\ study.before[i].store # EmptyMap
          /\ Len(BatchKeys(shards, i, study.pairs)) = 2
          /\ IndexKeys(shards[i]) = {study.pairs[2][1]}

====
